---------------------------- MODULE Spec2Model ----------------------------
(***************************************************************************)
(* Model of filterless' line pipeline (src/src/iter):                      *)
(*   LineBuffer    - numbered, memoising view of a forward-only source     *)
(*   ContextBuffer - the context classifier (Match/Context/Gap/Unfiltered) *)
(*   WindowBuffer  - the paginating window over the classified stream      *)
(*                                                                         *)
(* Text is a sequence of characters; Option<T> is <<>> (None) or <<x>>     *)
(* (Some(x)); enums are records tagged with the variant's name.            *)
(***************************************************************************)
EXTENDS Integers, Sequences, FiniteSets

\* ------------------------------------------------------------------ bounds
\* longest source given to a ContextBuffer
MaxLines == 7
\* largest context radius of a predicate given to a ContextBuffer
MaxRadius == 2
\* longest source given to a WindowBuffer
MaxWinLines == 4
\* largest context radius of a predicate given to a WindowBuffer
MaxWinRadius == 1
\* largest window height
MaxHeight == 2
\* longest source given to a LineBuffer driven on its own
MaxLBLines == 4
\* longest sequence of navigation calls compared after set_predicate
MaxNavDepth == 2

\* texts a source line can hold, and filter strings a predicate can hold
LineTexts == {<<"b">>, <<"b", "a">>}
FilterStrings == {<<>>, <<"a">>, <<"a", "b">>}

RECURSIVE SeqsUpTo(_, _)
SeqsUpTo(S, n) ==
    IF n = 0 THEN {<<>>}
    ELSE LET shorter == SeqsUpTo(S, n - 1)
         IN  shorter \cup {Append(s, x) : s \in {t \in shorter : Len(t) = n - 1}, x \in S}

Min(a, b) == IF a <= b THEN a ELSE b
Max(a, b) == IF a >= b THEN a ELSE b

\* ------------------------------------------------------------ data types
None == <<>>
Some(x) == <<x>>

\* String::contains: some window of s equals f (every s contains the empty f)
Contains(s, f) ==
    \E i \in 0..(Len(s) - Len(f)) : SubSeq(s, i + 1, i + Len(f)) = f

FilterPredicate(f, r) == [filter_string |-> f, context_lines |-> r]

Gap == [tag |-> "Gap"]
ContextLine(nl) == [tag |-> "ContextLine", line |-> nl]
MatchLine(nl) == [tag |-> "MatchLine", line |-> nl]
UnfilteredLine(nl) == [tag |-> "UnfilteredLine", line |-> nl]

Match(nl) == [tag |-> "Match", line |-> nl]
NoMatch(nl) == [tag |-> "NoMatch", line |-> nl]

\* ContextLine::from_numbered_line with the wrong sense of the test
from_numbered_line_inverted(numbered_line, filter_string) ==
    IF Contains(numbered_line[2], filter_string)
    THEN NoMatch(numbered_line)
    ELSE Match(numbered_line)

from_numbered_line(numbered_line, filter_string) ==
    IF Contains(numbered_line[2], filter_string)
    THEN Match(numbered_line)
    ELSE NoMatch(numbered_line)

\* a NoMatch line shown as context whether or not a predicate is set
to_filtered_line_context(context_line, pred) ==
    IF context_line.tag = "Match"
    THEN MatchLine(context_line.line)
    ELSE ContextLine(context_line.line)

to_filtered_line(context_line, pred) ==
    IF context_line.tag = "Match"
    THEN MatchLine(context_line.line)
    ELSE IF pred # None
         THEN ContextLine(context_line.line)
         ELSE UnfilteredLine(context_line.line)

\* ------------------------------------------------------------ LineBuffer
\* A value an operator computes and then reads more than once is handed to a
\* local operator as its argument, so that it is computed once.

\* lines: what the underlying iterator has yet to produce
LineBuffer_new(iterator) ==
    [lines          |-> iterator,
     cached_lines   |-> <<>>,
     last_iter_line |-> 0,
     iter_direction |-> "FORWARD"]

\* get that reads one line more than it needs
LineBuffer_get_one_more(lb, line_num) ==
    LET last_line_num == Len(lb.cached_lines)
        extend(num_lines, next_line_num) ==
            [lb EXCEPT
                !.cached_lines =
                    @ \o [i \in 1..Min(num_lines, Len(lb.lines)) |->
                              <<next_line_num + i - 1, lb.lines[i]>>],
                !.lines = SubSeq(@, Min(num_lines, Len(lb.lines)) + 1, Len(@))]
        result(lb2) ==
            [lb  |-> lb2,
             val |-> IF line_num <= Len(lb2.cached_lines)
                     THEN Some(lb2.cached_lines[line_num])
                     ELSE None]
    IN  IF line_num < 1
        THEN [lb |-> lb, val |-> None]
        ELSE result(IF line_num > last_line_num
                    THEN extend(line_num - last_line_num + 1, last_line_num + 1)
                    ELSE lb)

\* get that reads one line fewer than it needs
LineBuffer_get_one_short(lb, line_num) ==
    LET last_line_num == Len(lb.cached_lines)
        extend(num_lines, next_line_num) ==
            [lb EXCEPT
                !.cached_lines =
                    @ \o [i \in 1..Min(num_lines, Len(lb.lines)) |->
                              <<next_line_num + i - 1, lb.lines[i]>>],
                !.lines = SubSeq(@, Min(num_lines, Len(lb.lines)) + 1, Len(@))]
        result(lb2) ==
            [lb  |-> lb2,
             val |-> IF line_num <= Len(lb2.cached_lines)
                     THEN Some(lb2.cached_lines[line_num])
                     ELSE None]
    IN  IF line_num < 1
        THEN [lb |-> lb, val |-> None]
        ELSE result(IF line_num > last_line_num
                    THEN extend(line_num - last_line_num - 1, last_line_num + 1)
                    ELSE lb)

\* get that numbers the lines it reads from the cache length, not one past
LineBuffer_get_numbered_from_len(lb, line_num) ==
    LET last_line_num == Len(lb.cached_lines)
        extend(num_lines, next_line_num) ==
            [lb EXCEPT
                !.cached_lines =
                    @ \o [i \in 1..Min(num_lines, Len(lb.lines)) |->
                              <<next_line_num + i - 1, lb.lines[i]>>],
                !.lines = SubSeq(@, Min(num_lines, Len(lb.lines)) + 1, Len(@))]
        result(lb2) ==
            [lb  |-> lb2,
             val |-> IF line_num <= Len(lb2.cached_lines)
                     THEN Some(lb2.cached_lines[line_num])
                     ELSE None]
    IN  IF line_num < 1
        THEN [lb |-> lb, val |-> None]
        ELSE result(IF line_num > last_line_num
                    THEN extend(line_num - last_line_num, last_line_num)
                    ELSE lb)

LineBuffer_get(lb, line_num) ==
    LET last_line_num == Len(lb.cached_lines)
        \* (next_line_num..).zip(lines).take(num_lines), appended to the cache
        extend(num_lines, next_line_num) ==
            [lb EXCEPT
                !.cached_lines =
                    @ \o [i \in 1..Min(num_lines, Len(lb.lines)) |->
                              <<next_line_num + i - 1, lb.lines[i]>>],
                !.lines = SubSeq(@, Min(num_lines, Len(lb.lines)) + 1, Len(@))]
        result(lb2) ==
            [lb  |-> lb2,
             val |-> IF line_num <= Len(lb2.cached_lines)
                     THEN Some(lb2.cached_lines[line_num])
                     ELSE None]
    IN  IF line_num < 1
        THEN [lb |-> lb, val |-> None]
        ELSE result(IF line_num > last_line_num
                    THEN extend(line_num - last_line_num, last_line_num + 1)
                    ELSE lb)

\* seek that puts the cursor on the line asked for, not one before it
LineBuffer_seek_no_offset(lb, maybe_line_num, maybe_direction) ==
    LET set_line(lb1) ==
            IF maybe_line_num # None
            THEN [lb1 EXCEPT !.last_iter_line = maybe_line_num[1]]
            ELSE lb1
    IN  set_line(IF maybe_direction # None
                 THEN [lb EXCEPT !.iter_direction = maybe_direction[1]]
                 ELSE lb)

\* seek that also throws the memo away
LineBuffer_seek_dropping_memo(lb, maybe_line_num, maybe_direction) ==
    LET set_line(lb1) ==
            IF maybe_line_num # None
            THEN [lb1 EXCEPT !.cached_lines = <<>>,
                             !.last_iter_line =
                     IF lb1.iter_direction = "BACKWARD"
                     THEN maybe_line_num[1] + 1
                     ELSE IF maybe_line_num[1] > 0
                          THEN maybe_line_num[1] - 1
                          ELSE 0]
            ELSE lb1
    IN  set_line(IF maybe_direction # None
                 THEN [lb EXCEPT !.iter_direction = maybe_direction[1]]
                 ELSE lb)

LineBuffer_seek(lb, maybe_line_num, maybe_direction) ==
    LET set_line(lb1) ==
            IF maybe_line_num # None
            THEN [lb1 EXCEPT !.last_iter_line =
                     IF lb1.iter_direction = "BACKWARD"
                     THEN maybe_line_num[1] + 1
                     ELSE IF maybe_line_num[1] > 0
                          THEN maybe_line_num[1] - 1
                          ELSE 0]
            ELSE lb1
    IN  set_line(IF maybe_direction # None
                 THEN [lb EXCEPT !.iter_direction = maybe_direction[1]]
                 ELSE lb)

\* next that moves the cursor whether or not there is a line to return
LineBuffer_next_advancing(lb) ==
    LET maybe_next_line ==
            IF lb.iter_direction = "FORWARD"
            THEN Some(lb.last_iter_line + 1)
            ELSE IF lb.last_iter_line > 1
                 THEN Some(lb.last_iter_line - 1)
                 ELSE None
        step(next_line, got) ==
            [lb  |-> [got.lb EXCEPT !.last_iter_line = next_line],
             val |-> got.val]
    IN  IF maybe_next_line = None
        THEN [lb |-> lb, val |-> None]
        ELSE step(maybe_next_line[1], LineBuffer_get(lb, maybe_next_line[1]))

LineBuffer_next(lb) ==
    LET maybe_next_line ==
            IF lb.iter_direction = "FORWARD"
            THEN Some(lb.last_iter_line + 1)
            ELSE IF lb.last_iter_line > 1
                 THEN Some(lb.last_iter_line - 1)
                 ELSE None
        step(next_line, got) ==
            IF got.val # None
            THEN [lb  |-> [got.lb EXCEPT !.last_iter_line = next_line],
                  val |-> got.val]
            ELSE [lb |-> got.lb, val |-> None]
    IN  IF maybe_next_line = None
        THEN [lb |-> lb, val |-> None]
        ELSE step(maybe_next_line[1], LineBuffer_get(lb, maybe_next_line[1]))

\* ---------------------------------------------------------- ContextBuffer
Nones(n) == [i \in 1..n |-> None]

\* pop_front that leaves the deque as it is
pop_front_keep(buffer) == buffer

pop_front(buffer) == IF buffer = <<>> THEN <<>> ELSE Tail(buffer)

\* the (&mut iter).map(from_numbered_line) leg of the chain in new, cut by take
RECURSIVE new_take(_, _, _, _)
new_take(iter, filter_string, n, acc) ==
    LET pulled(r) ==
            IF r.val = None
            THEN [iter |-> r.lb, items |-> acc]
            ELSE new_take(r.lb, filter_string, n - 1,
                     Append(acc, Some(from_numbered_line(r.val[1], filter_string))))
    IN  IF n = 0
        THEN [iter |-> iter, items |-> acc]
        ELSE pulled(LineBuffer_next(iter))

\* one empty slot too few in front of the first lines
lead_nones_short(context_lines) == context_lines

\* the empty slots new puts in front: repeat(None).take(context_lines + 1)
lead_nones(context_lines) == context_lines + 1

\* new that fills the deque with empty slots and pulls no line
ContextBuffer_new_lazy(filter_predicate, iter) ==
    [filter_predicate |-> filter_predicate,
     buffer |-> IF filter_predicate # None
                THEN Nones(filter_predicate[1].context_lines * 2 + 1)
                ELSE <<>>,
     iter   |-> iter,
     gap    |-> "None"]

ContextBuffer_new(filter_predicate, iter) ==
    LET collect(capacity, lead, taken) ==
            [filter_predicate |-> filter_predicate,
             buffer |-> Nones(lead) \o taken.items
                            \o Nones(capacity - lead - Len(taken.items)),
             iter   |-> taken.iter,
             gap    |-> "None"]
        with(filter_string, context_lines) ==
            collect(context_lines * 2 + 1,
                    lead_nones(context_lines),
                    new_take(iter, filter_string,
                             context_lines * 2 + 1 - lead_nones(context_lines),
                             <<>>))
    IN  IF filter_predicate # None
        THEN with(filter_predicate[1].filter_string,
                  filter_predicate[1].context_lines)
        ELSE [filter_predicate |-> filter_predicate,
              buffer |-> <<>>,
              iter   |-> iter,
              gap    |-> "None"]

\* buffer_has_matches that does not look at the last slot
buffer_has_matches_but_last(buffer) ==
    \E i \in 1..(Len(buffer) - 1) : buffer[i] # None /\ buffer[i][1].tag = "Match"

\* buffer_has_matches that looks at the current slot and those after it only
buffer_has_matches_ahead(buffer) ==
    \E i \in ((Len(buffer) + 1) \div 2)..Len(buffer) :
        buffer[i] # None /\ buffer[i][1].tag = "Match"

buffer_has_matches(buffer) ==
    \E i \in 1..Len(buffer) : buffer[i] # None /\ buffer[i][1].tag = "Match"

\* the skip-ahead loop never records the gap
gap_after_push_never(gap, context_line) == gap

\* the skip-ahead loop records a gap for whatever line it pushes
gap_after_push_always(gap, context_line) == "Current"

\* the gap state after the skip-ahead loop pushed context_line
gap_after_push(gap, context_line) ==
    IF context_line.tag = "Match" THEN "Current" ELSE gap

\* the while loop of fill_buffer
RECURSIVE fill_buffer_loop(_)
fill_buffer_loop(cb) ==
    LET push(iter, context_line) ==
            fill_buffer_loop(
                [cb EXCEPT !.iter = iter,
                           !.gap = gap_after_push(@, context_line),
                           !.buffer = Append(pop_front(@), Some(context_line))])
        pulled(r) ==
            IF r.val # None
            THEN push(r.lb, from_numbered_line(
                                r.val[1], cb.filter_predicate[1].filter_string))
            ELSE [cb EXCEPT !.iter = r.lb, !.buffer = <<>>]
    IN  IF buffer_has_matches(cb.buffer)
        THEN cb
        ELSE pulled(LineBuffer_next(cb.iter))

ContextBuffer_fill_buffer(cb) ==
    LET pulled(r) ==
            IF cb.filter_predicate # None
            THEN fill_buffer_loop(
                     [cb EXCEPT
                         !.iter = r.lb,
                         !.buffer = Append(pop_front(@),
                             IF r.val # None
                             THEN Some(from_numbered_line(
                                      r.val[1],
                                      cb.filter_predicate[1].filter_string))
                             ELSE None)])
            ELSE [cb EXCEPT
                     !.iter = r.lb,
                     !.buffer = IF r.val # None
                                THEN Append(pop_front(@), Some(NoMatch(r.val[1])))
                                ELSE pop_front(@)]
    IN  pulled(LineBuffer_next(cb.iter))

\* the front of the deque taken for the current line
cur_idx_front(filter_predicate) == 0

\* index (0-based) of the current line in the deque
cur_idx(filter_predicate) ==
    IF filter_predicate # None THEN filter_predicate[1].context_lines ELSE 0

classify_cur_line(cb) ==
    LET at(idx) ==
            IF idx + 1 <= Len(cb.buffer) /\ cb.buffer[idx + 1] # None
            THEN Some(to_filtered_line(cb.buffer[idx + 1][1], cb.filter_predicate))
            ELSE None
    IN  at(cur_idx(cb.filter_predicate))

\* the step after a Gap advances the deque again instead of classifying it
ContextBuffer_next_no_defer(cb) ==
    LET classify(cb2) == [cb |-> cb2, val |-> classify_cur_line(cb2)]
        filled(cb1) ==
            IF cb1.gap = "Current"
            THEN [cb |-> [cb1 EXCEPT !.gap = "Previous"], val |-> Some(Gap)]
            ELSE classify([cb1 EXCEPT !.gap = "None"])
    IN  filled(ContextBuffer_fill_buffer([cb EXCEPT !.gap = "None"]))

\* the step after a Gap classifies the current slot and stays in Previous
ContextBuffer_next_keeping_previous(cb) ==
    LET classify(cb2) == [cb |-> cb2, val |-> classify_cur_line(cb2)]
        filled(cb1) ==
            IF cb1.gap = "Current"
            THEN [cb |-> [cb1 EXCEPT !.gap = "Previous"], val |-> Some(Gap)]
            ELSE classify([cb1 EXCEPT !.gap = "None"])
    IN  IF cb.gap = "None"
        THEN filled(ContextBuffer_fill_buffer(cb))
        ELSE classify(cb)

ContextBuffer_next(cb) ==
    LET classify(cb2) == [cb |-> cb2, val |-> classify_cur_line(cb2)]
        filled(cb1) ==
            IF cb1.gap = "Current"
            THEN [cb |-> [cb1 EXCEPT !.gap = "Previous"], val |-> Some(Gap)]
            ELSE classify([cb1 EXCEPT !.gap = "None"])
    IN  IF cb.gap = "None"
        THEN filled(ContextBuffer_fill_buffer(cb))
        ELSE classify([cb EXCEPT !.gap = "None"])

into_line_buffer(cb) == cb.iter

\* ----------------------------------------------------------- WindowBuffer
\* Take<&mut ContextBuffer> drained by Vec::extend: stops at the first None
RECURSIVE take_extend(_, _, _)
take_extend(cb, n, acc) ==
    LET yielded(r) ==
            IF r.val = None
            THEN [cb |-> r.cb, items |-> acc]
            ELSE take_extend(r.cb, n - 1, Append(acc, r.val[1]))
    IN  IF n = 0
        THEN [cb |-> cb, items |-> acc]
        ELSE yielded(ContextBuffer_next(cb))

\* width is stored and never read; it is left out of the state
WindowBuffer_new(iter, pred, h) ==
    [context_buffer |-> ContextBuffer_new(pred, LineBuffer_new(iter)),
     buffered_lines |-> <<>>,
     predicate      |-> pred,
     height         |-> h,
     start_line     |-> 0,
     end_line       |-> 0]

\* fill_buffer that asks for limit new lines whatever the cache holds
WindowBuffer_fill_buffer_ignoring_cache(w, limit) ==
    LET extend(new_lines) ==
            [w EXCEPT !.context_buffer = new_lines.cb,
                      !.buffered_lines = @ \o new_lines.items]
    IN  IF limit > 0
        THEN extend(take_extend(w.context_buffer, limit, <<>>))
        ELSE w

\* fill_buffer that overwrites the cache with the new lines
WindowBuffer_fill_buffer_replace(w, limit) ==
    LET num_new_lines == limit - Len(w.buffered_lines)
        extend(new_lines) ==
            [w EXCEPT !.context_buffer = new_lines.cb,
                      !.buffered_lines = new_lines.items]
    IN  IF num_new_lines > 0
        THEN extend(take_extend(w.context_buffer, num_new_lines, <<>>))
        ELSE w

\* fill_buffer that takes one line more than the limit asks for
WindowBuffer_fill_buffer_one_more(w, limit) ==
    LET num_new_lines == limit + 1 - Len(w.buffered_lines)
        extend(new_lines) ==
            [w EXCEPT !.context_buffer = new_lines.cb,
                      !.buffered_lines = @ \o new_lines.items]
    IN  IF num_new_lines > 0
        THEN extend(take_extend(w.context_buffer, num_new_lines, <<>>))
        ELSE w

WindowBuffer_fill_buffer(w, limit) ==
    LET num_new_lines == limit - Len(w.buffered_lines)
        extend(new_lines) ==
            [w EXCEPT !.context_buffer = new_lines.cb,
                      !.buffered_lines = @ \o new_lines.items]
    IN  IF num_new_lines > 0
        THEN extend(take_extend(w.context_buffer, num_new_lines, <<>>))
        ELSE w

\* get_lines that takes end_desired for the end whatever the cache holds
get_lines_unclamped(w, start1, num_lines) ==
    LET slice(start, end, filled) ==
            [w |-> [filled EXCEPT !.start_line = start + 1, !.end_line = end],
             lines |-> SubSeq(filled.buffered_lines, start + 1,
                              Min(end, Len(filled.buffered_lines))),
             panicked |-> FALSE]
    IN  IF ~(start1 >= 1)
        THEN [w |-> w, lines |-> <<>>, panicked |-> TRUE]
        ELSE slice(start1 - 1, start1 - 1 + num_lines,
                   WindowBuffer_fill_buffer(w, start1 - 1 + num_lines))

\* panicked: the assert!(start >= 1) failed
get_lines(w, start1, num_lines) ==
    LET slice(start, end, filled) ==
            [w |-> [filled EXCEPT !.start_line = start + 1, !.end_line = end],
             lines |-> SubSeq(filled.buffered_lines, start + 1, end),
             panicked |-> FALSE]
        clamp(start, end_desired, filled) ==
            slice(start,
                  IF end_desired <= Len(filled.buffered_lines)
                  THEN end_desired
                  ELSE Len(filled.buffered_lines),
                  filled)
    IN  IF ~(start1 >= 1)
        THEN [w |-> w, lines |-> <<>>, panicked |-> TRUE]
        ELSE clamp(start1 - 1, start1 - 1 + num_lines,
                   WindowBuffer_fill_buffer(w, start1 - 1 + num_lines))

first(lines) == IF lines = <<>> THEN None ELSE Some(lines[1])

\* set_predicate that hands the line buffer over without rewinding it
WindowBuffer_set_predicate_no_seek(w, pred) ==
    [w EXCEPT !.context_buffer = ContextBuffer_new(pred, into_line_buffer(@)),
              !.predicate = pred,
              !.buffered_lines = <<>>,
              !.end_line = 0]

\* set_predicate that keeps the cache filled under the old predicate
WindowBuffer_set_predicate_keeping_cache(w, pred) ==
    [w EXCEPT !.context_buffer =
                  ContextBuffer_new(pred,
                      LineBuffer_seek(into_line_buffer(@), Some(1), None)),
              !.predicate = pred,
              !.end_line = 0]

WindowBuffer_set_predicate(w, pred) ==
    [w EXCEPT !.context_buffer =
                  ContextBuffer_new(pred,
                      LineBuffer_seek(into_line_buffer(@), Some(1), None)),
              !.predicate = pred,
              !.buffered_lines = <<>>,
              !.end_line = 0]

\* the line at end_line requested instead of the one after it
WindowBuffer_next_line_from_end(w) ==
    LET got_lines(next_line, got) ==
            [w |-> IF got.panicked THEN w
                   ELSE [got.w EXCEPT !.end_line =
                            IF Len(got.lines) > 0 THEN next_line ELSE @],
             ret |-> first(got.lines),
             panicked |-> got.panicked]
    IN  got_lines(w.end_line, get_lines(w, w.end_line, 1))

WindowBuffer_next_line(w) ==
    LET got_lines(next_line, got) ==
            [w |-> IF got.panicked THEN w
                   ELSE [got.w EXCEPT !.end_line =
                            IF Len(got.lines) > 0 THEN next_line ELSE @],
             ret |-> first(got.lines),
             panicked |-> got.panicked]
    IN  got_lines(w.end_line + 1, get_lines(w, w.end_line + 1, 1))

\* the early return of prev_line, off by one
prev_line_at_beginning_strict(w) == w.end_line - w.height < 0

\* prev_line without its early return
prev_line_at_beginning_never(w) == FALSE

\* the early return of prev_line: already at the beginning
prev_line_at_beginning(w) == w.end_line - w.height <= 0

\* prev_line that leaves end_line where get_lines put it
WindowBuffer_prev_line_keep_end(w) ==
    LET next_line == IF w.end_line - w.height > 0
                     THEN w.end_line - w.height
                     ELSE 0
        got_lines(got) ==
            [w |-> got.w, ret |-> first(got.lines), panicked |-> got.panicked]
    IN  IF prev_line_at_beginning(w)
        THEN [w |-> w, ret |-> None, panicked |-> FALSE]
        ELSE got_lines(get_lines(w, next_line, 1))

\* prev_line that asks for the line before start_line
WindowBuffer_prev_line_before_start(w) ==
    LET next_line == IF w.start_line - 1 > 0 THEN w.start_line - 1 ELSE 0
        new_end_line == IF w.end_line > 0 THEN w.end_line - 1 ELSE 0
        got_lines(got) ==
            [w |-> IF got.panicked THEN w
                   ELSE [got.w EXCEPT !.end_line =
                            IF Len(got.lines) > 0 THEN new_end_line ELSE @],
             ret |-> first(got.lines),
             panicked |-> got.panicked]
    IN  IF prev_line_at_beginning(w)
        THEN [w |-> w, ret |-> None, panicked |-> FALSE]
        ELSE got_lines(get_lines(w, next_line, 1))

\* prev_line that asks for the line before end_line, the height left out
WindowBuffer_prev_line_without_height(w) ==
    LET next_line == IF w.end_line - 1 > 0 THEN w.end_line - 1 ELSE 0
        new_end_line == IF w.end_line > 0 THEN w.end_line - 1 ELSE 0
        got_lines(got) ==
            [w |-> IF got.panicked THEN w
                   ELSE [got.w EXCEPT !.end_line =
                            IF Len(got.lines) > 0 THEN new_end_line ELSE @],
             ret |-> first(got.lines),
             panicked |-> got.panicked]
    IN  IF w.end_line - 1 <= 0
        THEN [w |-> w, ret |-> None, panicked |-> FALSE]
        ELSE got_lines(get_lines(w, next_line, 1))

WindowBuffer_prev_line(w) ==
    LET next_line == IF w.end_line - w.height > 0
                     THEN w.end_line - w.height
                     ELSE 0
        new_end_line == IF w.end_line > 0 THEN w.end_line - 1 ELSE 0
        got_lines(got) ==
            [w |-> IF got.panicked THEN w
                   ELSE [got.w EXCEPT !.end_line =
                            IF Len(got.lines) > 0 THEN new_end_line ELSE @],
             ret |-> first(got.lines),
             panicked |-> got.panicked]
    IN  IF prev_line_at_beginning(w)
        THEN [w |-> w, ret |-> None, panicked |-> FALSE]
        ELSE got_lines(get_lines(w, next_line, 1))

\* next_page that asks for one line more than the screen holds
WindowBuffer_next_page_one_more(w) ==
    LET got_lines(got) ==
            [w |-> got.w, ret |-> got.lines, panicked |-> got.panicked]
    IN  got_lines(get_lines(w, w.end_line + 1, w.height + 1))

WindowBuffer_next_page(w) ==
    LET got_lines(got) ==
            [w |-> got.w, ret |-> got.lines, panicked |-> got.panicked]
    IN  got_lines(get_lines(w, w.end_line + 1, w.height))

\* prev_page without the clamp to line 1
WindowBuffer_prev_page_unclamped(w) ==
    LET got_lines(got) ==
            [w |-> got.w, ret |-> got.lines, panicked |-> got.panicked]
    IN  got_lines(get_lines(w, w.start_line - w.height, w.height))

\* prev_page that counts the page back from end_line
WindowBuffer_prev_page_from_end(w) ==
    LET start_line0 == IF w.end_line - w.height >= 1
                       THEN w.end_line - w.height
                       ELSE 1
        got_lines(got) ==
            [w |-> got.w, ret |-> got.lines, panicked |-> got.panicked]
    IN  got_lines(get_lines(w, start_line0, w.height))

WindowBuffer_prev_page(w) ==
    LET start_line0 == IF w.start_line - w.height >= 1
                       THEN w.start_line - w.height
                       ELSE 1
        got_lines(got) ==
            [w |-> got.w, ret |-> got.lines, panicked |-> got.panicked]
    IN  got_lines(get_lines(w, start_line0, w.height))

\* ----------------------------------------------------------------- state
VARIABLES
    source,          \* the lines the source was created with
    context_buffer,  \* ContextBuffer {filter_predicate, buffer, iter, gap}
    buffered_lines,  \* WindowBuffer.buffered_lines
    predicate,       \* WindowBuffer.predicate
    height,          \* WindowBuffer.height
    start_line,      \* WindowBuffer.start_line
    end_line,        \* WindowBuffer.end_line
    panicked,        \* an assertion failed and the program aborted
    op,              \* the operation that ran last
    ret,             \* what it returned
    out,             \* the entries the classifier has yielded so far
    ended,           \* the classifier has returned None
    nexts,           \* next_line calls, while no other call was made since
                     \* construction or set_predicate; -1 otherwise
    fresh,           \* set_predicate has not been called
    prevs,           \* prev_line calls made in a row right after next_line
                     \* calls alone reached the end of the stream; -1 otherwise
    pages,           \* next_page calls, while no other call was made since
                     \* construction; -1 otherwise
    line_buffer,     \* a LineBuffer driven on its own
    since_seek       \* the line number the last seek on it was given and the
                     \* next calls made since, no other call between; or None

vars == <<source, context_buffer, buffered_lines, predicate, height,
          start_line, end_line, panicked, op, ret, out, ended, nexts, fresh,
          prevs, pages, line_buffer, since_seek>>

winVars == <<buffered_lines, predicate, height, start_line, end_line,
             panicked, nexts, fresh, prevs, pages>>

Sources == SeqsUpTo(LineTexts, MaxLines)
Predicates ==
    {None} \cup {Some(FilterPredicate(f, r)) : f \in FilterStrings, r \in 0..MaxRadius}

\* -------------------------------------- the classifier driven on its own
CBInit ==
    /\ source \in Sources
    /\ \E pred \in Predicates :
           context_buffer = ContextBuffer_new(pred, LineBuffer_new(source))
    /\ buffered_lines = <<>>
    /\ predicate = None
    /\ height = 0
    /\ start_line = 0
    /\ end_line = 0
    /\ panicked = FALSE
    /\ op = "new"
    /\ ret = None
    /\ out = <<>>
    /\ ended = FALSE
    /\ nexts = 0
    /\ fresh = TRUE
    /\ prevs = -1
    /\ pages = 0
    /\ line_buffer = LineBuffer_new(<<>>)
    /\ since_seek = None

cb_next ==
    /\ \E r \in {ContextBuffer_next(context_buffer)} :
           /\ context_buffer' = r.cb
           /\ ret' = r.val
           /\ out' = IF r.val # None THEN Append(out, r.val[1]) ELSE out
           /\ ended' = (ended \/ r.val = None)
    /\ op' = "next"
    /\ UNCHANGED <<source, winVars, line_buffer, since_seek>>

CBNext == cb_next

SpecCB == CBInit /\ [][CBNext]_vars


\* ------------------------------------------ the window driven by its caller
WinSources == SeqsUpTo(LineTexts, MaxWinLines)
\* with the texts of LineTexts, "a" alone gives every pattern of matching
\* and non-matching lines (all, none, any mix)
WinFilterStrings == {<<"a">>}
WinPredicates ==
    {None} \cup {Some(FilterPredicate(f, r)) : f \in WinFilterStrings, r \in 0..MaxWinRadius}

\* next_line calls counted by nexts before it stops counting
MaxCalls == MaxWinLines + 3

\* the WindowBuffer the variables hold
Win ==
    [context_buffer |-> context_buffer,
     buffered_lines |-> buffered_lines,
     predicate      |-> predicate,
     height         |-> height,
     start_line     |-> start_line,
     end_line       |-> end_line]

SetWin(w) ==
    /\ context_buffer' = w.context_buffer
    /\ buffered_lines' = w.buffered_lines
    /\ predicate' = w.predicate
    /\ height' = w.height
    /\ start_line' = w.start_line
    /\ end_line' = w.end_line

WinInit ==
    /\ source \in WinSources
    /\ \E pred \in WinPredicates, h \in 0..MaxHeight :
           \E w \in {WindowBuffer_new(source, pred, h)} :
               /\ context_buffer = w.context_buffer
               /\ buffered_lines = w.buffered_lines
               /\ predicate = w.predicate
               /\ height = w.height
               /\ start_line = w.start_line
               /\ end_line = w.end_line
    /\ panicked = FALSE
    /\ op = "new"
    /\ ret = None
    /\ out = <<>>
    /\ ended = FALSE
    /\ nexts = 0
    /\ fresh = TRUE
    /\ prevs = -1
    /\ pages = 0
    /\ line_buffer = LineBuffer_new(<<>>)
    /\ since_seek = None

next_line ==
    /\ ~panicked
    /\ \E r \in {WindowBuffer_next_line(Win)} :
           /\ SetWin(r.w)
           /\ ret' = r.ret
           /\ panicked' = r.panicked
    /\ op' = "next_line"
    /\ nexts' = IF nexts >= 0 /\ nexts < MaxCalls THEN nexts + 1 ELSE -1
    /\ prevs' = -1
    /\ pages' = -1
    /\ UNCHANGED <<source, out, ended, fresh, line_buffer, since_seek>>

prev_line ==
    /\ ~panicked
    /\ \E r \in {WindowBuffer_prev_line(Win)} :
           /\ SetWin(r.w)
           /\ ret' = r.ret
           /\ panicked' = r.panicked
    /\ op' = "prev_line"
    /\ nexts' = -1
    /\ prevs' = IF op = "next_line" /\ nexts >= 1 /\ ret = None THEN 1
              ELSE IF prevs >= 1 /\ prevs < MaxCalls THEN prevs + 1 ELSE -1
    /\ pages' = -1
    /\ UNCHANGED <<source, out, ended, fresh, line_buffer, since_seek>>

next_page ==
    /\ ~panicked
    /\ \E r \in {WindowBuffer_next_page(Win)} :
           /\ SetWin(r.w)
           /\ ret' = r.ret
           /\ panicked' = r.panicked
    /\ op' = "next_page"
    /\ nexts' = -1
    /\ prevs' = -1
    /\ pages' = IF fresh /\ pages >= 0 /\ pages < MaxCalls THEN pages + 1 ELSE -1
    /\ UNCHANGED <<source, out, ended, fresh, line_buffer, since_seek>>

prev_page ==
    /\ ~panicked
    /\ \E r \in {WindowBuffer_prev_page(Win)} :
           /\ SetWin(r.w)
           /\ ret' = r.ret
           /\ panicked' = r.panicked
    /\ op' = "prev_page"
    /\ nexts' = -1
    /\ prevs' = -1
    /\ pages' = -1
    /\ UNCHANGED <<source, out, ended, fresh, line_buffer, since_seek>>

set_predicate ==
    /\ ~panicked
    /\ \E pred \in WinPredicates :
           \E w \in {WindowBuffer_set_predicate(Win, pred)} : SetWin(w)
    /\ op' = "set_predicate"
    /\ ret' = None
    /\ nexts' = 0
    /\ fresh' = FALSE
    /\ prevs' = -1
    /\ pages' = -1
    /\ UNCHANGED <<source, out, ended, panicked, line_buffer, since_seek>>

WinNext ==
    \/ next_line
    \/ prev_line
    \/ next_page
    \/ prev_page
    \/ set_predicate

SpecWin == WinInit /\ [][WinNext]_vars

\* ----------------------------------- the line buffer driven on its own
LBSources == SeqsUpTo(LineTexts, MaxLBLines)
LineNums == 0..(MaxLBLines + 1)
Directions == {"FORWARD", "BACKWARD"}

LBInit ==
    /\ source \in LBSources
    /\ line_buffer = LineBuffer_new(source)
    /\ context_buffer = ContextBuffer_new(None, LineBuffer_new(<<>>))
    /\ buffered_lines = <<>>
    /\ predicate = None
    /\ height = 0
    /\ start_line = 0
    /\ end_line = 0
    /\ panicked = FALSE
    /\ op = "new"
    /\ ret = None
    /\ out = <<>>
    /\ ended = FALSE
    /\ nexts = 0
    /\ fresh = TRUE
    /\ prevs = -1
    /\ pages = 0
    /\ since_seek = None

lb_get ==
    /\ \E line_num \in LineNums :
           \E r \in {LineBuffer_get(line_buffer, line_num)} :
               /\ line_buffer' = r.lb
               /\ ret' = r.val
    /\ op' = "get"
    /\ since_seek' = None
    /\ UNCHANGED <<source, context_buffer, winVars, out, ended>>

lb_seek ==
    /\ \E maybe_line_num \in {None} \cup {Some(n) : n \in LineNums},
          maybe_direction \in {None} \cup {Some(d) : d \in Directions} :
           /\ line_buffer' = LineBuffer_seek(line_buffer, maybe_line_num, maybe_direction)
           /\ since_seek' = IF maybe_line_num = None THEN None
                            ELSE Some([line_num |-> maybe_line_num[1], nexts |-> 0])
    /\ op' = "seek"
    /\ ret' = None
    /\ UNCHANGED <<source, context_buffer, winVars, out, ended>>

lb_next ==
    /\ \E r \in {LineBuffer_next(line_buffer)} :
           /\ line_buffer' = r.lb
           /\ ret' = r.val
    /\ op' = "next"
    /\ since_seek' = IF since_seek # None /\ since_seek[1].nexts < MaxLBLines + 2
                     THEN Some([since_seek[1] EXCEPT !.nexts = @ + 1])
                     ELSE None
    /\ UNCHANGED <<source, context_buffer, winVars, out, ended>>

LBNext ==
    \/ lb_get
    \/ lb_seek
    \/ lb_next

SpecLB == LBInit /\ [][LBNext]_vars

\* ------------------- the window given predicates with an empty filter string
EmptyPredicates ==
    {None} \cup {Some(FilterPredicate(<<>>, r)) : r \in 0..MaxWinRadius}

EmptyInit ==
    /\ source \in WinSources
    /\ \E pred \in EmptyPredicates, h \in 0..MaxHeight :
           \E w \in {WindowBuffer_new(source, pred, h)} :
               /\ context_buffer = w.context_buffer
               /\ buffered_lines = w.buffered_lines
               /\ predicate = w.predicate
               /\ height = w.height
               /\ start_line = w.start_line
               /\ end_line = w.end_line
    /\ panicked = FALSE
    /\ op = "new"
    /\ ret = None
    /\ out = <<>>
    /\ ended = FALSE
    /\ nexts = 0
    /\ fresh = TRUE
    /\ prevs = -1
    /\ pages = 0
    /\ line_buffer = LineBuffer_new(<<>>)
    /\ since_seek = None

set_empty_predicate ==
    /\ ~panicked
    /\ \E pred \in EmptyPredicates :
           \E w \in {WindowBuffer_set_predicate(Win, pred)} : SetWin(w)
    /\ op' = "set_predicate"
    /\ ret' = None
    /\ nexts' = 0
    /\ fresh' = FALSE
    /\ prevs' = -1
    /\ pages' = -1
    /\ UNCHANGED <<source, out, ended, panicked, line_buffer, since_seek>>

EmptyNext ==
    \/ next_line
    \/ next_page
    \/ set_empty_predicate

SpecEmpty == EmptyInit /\ [][EmptyNext]_vars

\* ------------------------------------------------ what the claims speak of
IsPrefix(a, b) == Len(a) <= Len(b) /\ SubSeq(b, 1, Len(a)) = a
Last(s) == s[Len(s)]
Range(s) == {s[i] : i \in 1..Len(s)}
IsGap(e) == e.tag = "Gap"
IsLine(e) == e.tag \in {"ContextLine", "MatchLine"}
NonGaps(s) == SelectSeq(s, LAMBDA e : ~IsGap(e))
Abs(n) == IF n < 0 THEN -n ELSE n

RECURSIVE SortedSeq(_)
SortedSeq(S) ==
    IF S = {} THEN <<>>
    ELSE LET m == CHOOSE x \in S : \A y \in S : x <= y
         IN  <<m>> \o SortedSeq(S \ {m})

\* the predicate the classifier was built with, its filter string and radius
CbPred == context_buffer.filter_predicate
CbF == CbPred[1].filter_string
CbR == CbPred[1].context_lines

\* numbers of the source lines containing f, and of those within r of one
MatchingLines(src, f) == {i \in 1..Len(src) : Contains(src[i], f)}
ShownLines(src, f, r) ==
    {i \in 1..Len(src) : \E j \in MatchingLines(src, f) : Abs(i - j) <= r}
EntryOf(src, f, i) ==
    IF Contains(src[i], f) THEN MatchLine(<<i, src[i]>>) ELSE ContextLine(<<i, src[i]>>)
ExpectedLines(src, f, r) ==
    LET shown == SortedSeq(ShownLines(src, f, r))
    IN  [k \in 1..Len(shown) |-> EntryOf(src, f, shown[k])]

\* C1: with an active predicate (f, r) the non-Gap entries yielded so far are
\* a prefix of, and at exhaustion equal to, the source lines within r of a
\* line containing f, in increasing order, each once, a line containing f as
\* MatchLine and any other as ContextLine, with its 1-based number and text.
C1_ContextLines ==
    CbPred # None =>
        LET expected == ExpectedLines(source, CbF, CbR)
        IN  /\ IsPrefix(NonGaps(out), expected)
            /\ ended => NonGaps(out) = expected

C1_Witness ==
    /\ CbPred # None /\ CbF # <<>> /\ CbR >= 1 /\ ended
    /\ \E i, j, k \in 1..Len(out) :
           out[i].tag = "MatchLine" /\ out[j].tag = "ContextLine" /\ IsGap(out[k])
    /\ Len(NonGaps(out)) < Len(source)

\* positions in out of the MatchLine entries of source lines m1 and m2
IdxOfMatch(m) == CHOOSE i \in 1..Len(out) : out[i] = MatchLine(<<m, source[m]>>)
HasMatch(m) == MatchLine(<<m, source[m]>>) \in Range(out)
GapsBetween(i, j) == Cardinality({k \in (i + 1)..(j - 1) : IsGap(out[k])})
ConsecutiveMatches(src, f) ==
    {p \in MatchingLines(src, f) \X MatchingLines(src, f) :
        /\ p[1] < p[2]
        /\ ~\E m \in MatchingLines(src, f) : p[1] < m /\ m < p[2]}

\* C2: with an active predicate of radius r, for two consecutive matching
\* lines more than 2r+1 apart, exactly one Gap lies between their entries
\* (both entries are there once the second is yielded or the stream ended).
C2_OneGapBetweenGroups ==
    CbPred # None =>
        \A p \in ConsecutiveMatches(source, CbF) :
            (p[2] - p[1] > 2 * CbR + 1 /\ (HasMatch(p[2]) \/ ended)) =>
                /\ HasMatch(p[1])
                /\ HasMatch(p[2])
                /\ IdxOfMatch(p[1]) < IdxOfMatch(p[2])
                /\ GapsBetween(IdxOfMatch(p[1]), IdxOfMatch(p[2])) = 1

C2_Witness ==
    /\ CbPred # None /\ ended
    /\ \E p \in ConsecutiveMatches(source, CbF) :
           /\ CbR >= 1
           /\ p[2] - p[1] > 2 * CbR + 1
           /\ HasMatch(p[2])

\* C3: for every source and predicate no two Gaps are in a row: a Gap is
\* preceded (if anything precedes it) and followed by a Context or Match
\* line, and is never the entry the stream ends with.
C3_NoDoubleGap ==
    \A i \in 1..Len(out) :
        IsGap(out[i]) =>
            /\ i > 1 => IsLine(out[i - 1])
            /\ i < Len(out) => IsLine(out[i + 1])
            /\ ended => i < Len(out)

C3_Witness ==
    /\ ended
    /\ Cardinality({i \in 1..Len(out) : IsGap(out[i])}) >= 2
    /\ IsGap(out[1])

\* C4: with no predicate the classifier yields the source lines in order,
\* each as UnfilteredLine with its 1-based number, and never a Gap.
C4_PassThrough ==
    CbPred = None =>
        LET verbatim == [i \in 1..Len(source) |-> UnfilteredLine(<<i, source[i]>>)]
        IN  /\ IsPrefix(out, verbatim)
            /\ ended => out = verbatim

C4_Witness == CbPred = None /\ ended /\ Len(out) >= 3 /\ op = "next"

\* C5: with radius 0 the stream without its Gaps is the sequence of the
\* source lines containing the filter string, in source order, each a
\* MatchLine.
C5_RadiusZero ==
    (CbPred # None /\ CbR = 0) =>
        LET hits == SelectSeq([i \in 1..Len(source) |-> <<i, source[i]>>],
                              LAMBDA nl : Contains(nl[2], CbF))
            matching == [k \in 1..Len(hits) |-> MatchLine(hits[k])]
        IN  /\ IsPrefix(NonGaps(out), matching)
            /\ ended => NonGaps(out) = matching

C5_Witness ==
    /\ CbPred # None /\ CbR = 0 /\ CbF # <<>> /\ ended
    /\ Len(NonGaps(out)) >= 2
    /\ Len(NonGaps(out)) < Len(out)
    /\ Len(out) < Len(source)

FirstMatch(src, f) == CHOOSE m \in MatchingLines(src, f) :
                          \A n \in MatchingLines(src, f) : m <= n

\* C6: with an active predicate of radius r the stream begins with a Gap
\* exactly when the first matching line is at a position above r+1, and the
\* entry after that Gap is the line r before the first match; with the first
\* match at r+1 or below the stream begins with source line 1.
C6_LeadingGap ==
    (CbPred # None /\ MatchingLines(source, CbF) # {}) =>
        LET m == FirstMatch(source, CbF)
        IN  /\ ended => out # <<>>
            /\ (out # <<>> /\ m > CbR + 1) =>
                   /\ IsGap(out[1])
                   /\ (Len(out) >= 2 \/ ended) =>
                          /\ Len(out) >= 2
                          /\ out[2] = EntryOf(source, CbF, m - CbR)
            /\ (out # <<>> /\ m <= CbR + 1) => out[1] = EntryOf(source, CbF, 1)

C6_Witness ==
    /\ CbPred # None /\ CbR >= 1 /\ MatchingLines(source, CbF) # {}
    /\ FirstMatch(source, CbF) > CbR + 2
    /\ Len(out) >= 2 /\ IsGap(out[1]) /\ out[2].tag = "ContextLine"

C6_WitnessNoGap ==
    /\ CbPred # None /\ CbR >= 1 /\ MatchingLines(source, CbF) # {}
    /\ FirstMatch(source, CbF) = CbR + 1
    /\ Len(out) >= 1 /\ out[1].tag = "ContextLine"

LastMatch(src, f) == CHOOSE m \in MatchingLines(src, f) :
                         \A n \in MatchingLines(src, f) : m >= n

\* the last line the stream shows: r past the last match, or the last line
FinalLine(src, f, r) == Min(LastMatch(src, f) + r, Len(src))

\* C7: the stream never ends with a Gap: it ends with the line r past the
\* last match (or the last source line), lines after that are dropped, and
\* the call after that line was yielded returns None.
C7_NoTrailingGap ==
    CbPred # None =>
        /\ (ended /\ out # <<>>) =>
               /\ IsLine(Last(out))
               /\ Last(out).line[1] = FinalLine(source, CbF, CbR)
        /\ (ended /\ MatchingLines(source, CbF) = {}) => out = <<>>
        /\ (/\ out # <<>>
            /\ IsLine(Last(out))
            /\ Last(out).line[1] = FinalLine(source, CbF, CbR)) =>
               ContextBuffer_next(context_buffer).val = None

C7_Witness ==
    /\ CbPred # None /\ ended /\ out # <<>>
    /\ CbR >= 1
    /\ Last(out).tag = "ContextLine"
    /\ Last(out).line[1] + 2 <= Len(source)

\* C8: exhaustion is permanent: once next has returned None, with or
\* without a predicate, every later call returns None as well.
C8_ExhaustionPermanent == ended => ret = None

\* the deque is only cleared by a call later than the first None when the
\* last source line matches and the radius is positive
C8_Witness ==
    /\ ended /\ ret = None /\ op = "next"
    /\ CbPred # None /\ CbR >= 1
    /\ Len(source) \in MatchingLines(source, CbF)
    /\ context_buffer.buffer = <<>>

C8_WitnessNoPredicate ==
    /\ ended /\ ret = None /\ CbPred = None /\ out # <<>>


\* the classified stream: all a classifier built over the whole source yields
RECURSIVE drain(_, _)
drain(cb, acc) ==
    LET yielded(r) ==
            IF r.val = None THEN acc ELSE drain(r.cb, Append(acc, r.val[1]))
    IN  yielded(ContextBuffer_next(cb))

ClassifiedStream(src, pred) ==
    drain(ContextBuffer_new(pred, LineBuffer_new(src)), <<>>)

\* C9: on a freshly constructed window the k-th consecutive next_line call
\* returns the k-th entry of the classified stream and leaves end_line = k;
\* past the end of the stream every such call returns None.
C9_NextLineWalksStream ==
    (fresh /\ nexts >= 1 /\ op = "next_line") =>
        \E stream \in {ClassifiedStream(source, predicate)} :
            IF nexts <= Len(stream)
            THEN ret = Some(stream[nexts]) /\ end_line = nexts
            ELSE ret = None

C9_Witness ==
    /\ fresh /\ op = "next_line" /\ predicate # None
    /\ nexts >= Len(ClassifiedStream(source, predicate)) + 2
    /\ Len(ClassifiedStream(source, predicate)) >= 3
    /\ \E i \in 1..Len(buffered_lines) : IsGap(buffered_lines[i])

\* C10: prev_line at the beginning (end_line <= height), as right after
\* construction, returns None and changes neither the viewport bounds, the
\* cache nor the classifier.
C10_PrevLineAtBeginning ==
    [][(op' = "prev_line" /\ end_line <= height) =>
           /\ ret' = None
           /\ UNCHANGED <<context_buffer, buffered_lines, predicate, height,
                          start_line, end_line, panicked>>]_vars

C10_Witness ==
    /\ op = "prev_line" /\ ret = None
    /\ height >= 1 /\ end_line = height
    /\ Len(buffered_lines) >= height

C10_WitnessFresh ==
    /\ op = "prev_line" /\ ret = None /\ fresh
    /\ height >= 1 /\ end_line = 0 /\ start_line = 0
    /\ buffered_lines = <<>>
    /\ source # <<>>

\* C11: prev_line called with end_line > height returns the cache entry at
\* index end_line - height and decreases end_line by exactly one; prev_line
\* calls repeated from the end of the stream walk back one entry at a time
\* down to entry 1 and return None from then on.
C11_PrevLineWalksBack ==
    /\ [][(op' = "prev_line" /\ end_line > height) =>
              /\ end_line - height <= Len(buffered_lines)
              /\ ret' = Some(buffered_lines[end_line - height])
              /\ end_line' = end_line - 1]_vars
    /\ []((prevs >= 1 /\ op = "prev_line") =>
              \E stream \in {ClassifiedStream(source, predicate)} :
                  IF Len(stream) - height - prevs + 1 >= 1
                  THEN /\ ret = Some(stream[Len(stream) - height - prevs + 1])
                       /\ end_line = Len(stream) - prevs
                  ELSE ret = None)

\* the first None after a walk from the end of a stream with a Gap in it
C11_Witness ==
    /\ op = "prev_line" /\ ret = None /\ height >= 1
    /\ prevs = Len(buffered_lines) - height + 1
    /\ prevs >= 3
    /\ \E i \in 1..Len(buffered_lines) : IsGap(buffered_lines[i])

C13_NextPage ==
    /\ [][op' = "next_page" =>
              \E stream \in {ClassifiedStream(source, predicate)} :
                  /\ ret' = SubSeq(stream, end_line + 1,
                                   Min(end_line + height, Len(stream)))
                  /\ start_line' = end_line + 1
                  /\ end_line' = end_line + Len(ret')]_vars
    /\ []((fresh /\ pages >= 1 /\ op = "next_page") =>
              \E stream \in {ClassifiedStream(source, predicate)} :
                  ret = SubSeq(stream, (pages - 1) * height + 1,
                               Min(pages * height, Len(stream))))

\* a full page, a shorter last page, then two empty pages
C13_Witness ==
    /\ fresh /\ op = "next_page" /\ pages = 4 /\ height = 2
    /\ Len(buffered_lines) = 3
    /\ ret = <<>>
    /\ \E i \in 1..Len(buffered_lines) : IsGap(buffered_lines[i])

\* the first entry prev_page asks for: start_line - height, or 1 below that
PrevPageStart == IF start_line - height < 1 THEN 1 ELSE start_line - height

\* C14: prev_page returns up to height entries of the classified stream
\* starting at index start_line - height, the start clamped to 1 when that
\* is below 1 (a fresh window gets the first page); once prev_page has
\* returned the first page, further prev_page calls return that page again.
C14_PrevPage ==
    [][/\ op' = "prev_page" =>
              \E stream \in {ClassifiedStream(source, predicate)} :
                  /\ ret' = SubSeq(stream, PrevPageStart,
                                   Min(PrevPageStart + height - 1, Len(stream)))
                  /\ start_line' = PrevPageStart
                  /\ (op = "new" /\ fresh) =>
                         ret' = SubSeq(stream, 1, Min(height, Len(stream)))
       /\ (op = "prev_page" /\ start_line = 1 /\ op' = "prev_page") =>
              /\ ret' = ret
              /\ start_line' = 1
              /\ end_line' = end_line]_vars

\* prev_page came back to the first page from further down, its start
\* clamped: a full page above the viewport would have begun before line 1
C14_Witness ==
    /\ op = "prev_page" /\ start_line = 1 /\ height = 2
    /\ Len(ret) = 2 /\ end_line = 2
    /\ Len(buffered_lines) >= 4
    /\ \E i \in 1..Len(buffered_lines) : IsGap(buffered_lines[i])

\* C15: after set_predicate(P), whatever was called before it, the k-th
\* consecutive next_line call returns the k-th entry of the classified
\* stream of the whole source under P, and None past the end of that stream.
C15_SetPredicateRestartsStream ==
    (~fresh /\ nexts >= 1 /\ op = "next_line") =>
        /\ context_buffer.filter_predicate = predicate
        /\ \E stream \in {ClassifiedStream(source, predicate)} :
               IF nexts <= Len(stream)
               THEN ret = Some(stream[nexts]) /\ end_line = nexts
               ELSE ret = None

\* the first next_line after set_predicate returned line 1 of the new
\* stream although the whole source had been read under the old predicate
C15_Witness ==
    /\ ~fresh /\ nexts = 1 /\ op = "next_line"
    /\ predicate # None
    /\ Len(source) >= 3
    /\ ret = Some(MatchLine(<<1, source[1]>>))
    /\ Len(context_buffer.iter.cached_lines) = Len(source)
    /\ context_buffer.iter.last_iter_line < Len(source)

\* the navigation operations, and what a sequence of them returns
NavOps == {"next_line", "prev_line", "next_page", "prev_page"}

Nav(w, o) ==
    CASE o = "next_line" -> WindowBuffer_next_line(w)
      [] o = "prev_line" -> WindowBuffer_prev_line(w)
      [] o = "next_page" -> WindowBuffer_next_page(w)
      [] o = "prev_page" -> WindowBuffer_prev_page(w)

RECURSIVE NavResults(_, _)
NavResults(w, ops) ==
    LET called(r) == <<r.ret>> \o NavResults(r.w, Tail(ops))
    IN  IF ops = <<>> THEN <<>> ELSE called(Nav(w, Head(ops)))

\* C16: set_predicate(P) is a full restart: every sequence of navigation
\* operations applied after it returns what the same sequence returns on a
\* window freshly constructed over the same source with P and the same
\* height.
C16_SetPredicateIsFullRestart ==
    op = "set_predicate" =>
        \A ops \in SeqsUpTo(NavOps, MaxNavDepth) :
            NavResults(Win, ops) =
                NavResults(WindowBuffer_new(source, predicate, height), ops)

\* the window's line buffer, and the lines a classifier holds in its deque
WinLB == context_buffer.iter
HeldLines(buffer) ==
    SelectSeq(buffer, LAMBDA slot : slot # None)

\* the memo is the first lines of src, numbered from 1, and rest is what
\* src has left to give after them
MemoOf(lb, src) ==
    /\ Len(lb.cached_lines) <= Len(src)
    /\ \A i \in 1..Len(lb.cached_lines) : lb.cached_lines[i] = <<i, src[i]>>
    /\ lb.lines = SubSeq(src, Len(lb.cached_lines) + 1, Len(src))

\* C17: set_predicate rewinds the line buffer's cursor to line 1 and keeps
\* its memo as it is: the new classifier starts with lines 1.. replayed
\* from the memo, and over any sequence of window operations the memo only
\* grows, by the lines taken off the source, each taken once and in order.
C17_SetPredicateKeepsMemo ==
    /\ [](MemoOf(WinLB, source))
    /\ [][/\ IsPrefix(WinLB.cached_lines, WinLB.cached_lines')
          /\ op' = "set_predicate" =>
                 \E held \in {HeldLines(context_buffer'.buffer)} :
                     /\ WinLB.iter_direction' = "FORWARD"
                     /\ WinLB.last_iter_line' = Len(held)
                     /\ \A i \in 1..Len(held) :
                            held[i][1].line = <<i, source[i]>>
                     /\ Len(held) <= Len(WinLB.cached_lines) =>
                            WinLB.cached_lines' = WinLB.cached_lines]_vars

\* set_predicate found the whole source in the memo, the source itself
\* used up, and the new classifier holds line 1 again
C17_Witness ==
    /\ op = "set_predicate" /\ predicate # None
    /\ Len(source) >= 3
    /\ Len(WinLB.cached_lines) = Len(source)
    /\ WinLB.lines = <<>>
    /\ WinLB.last_iter_line = 1
    /\ HeldLines(context_buffer.buffer) # <<>>

\* C18: the cache is append-only while the predicate stands: a navigation
\* operation leaves every entry of the cache where and what it was, and
\* only set_predicate empties the cache.
C18_CacheAppendOnly ==
    [][/\ op' \in NavOps => IsPrefix(buffered_lines, buffered_lines')
       /\ op' = "set_predicate" => buffered_lines' = <<>>
       /\ ~IsPrefix(buffered_lines, buffered_lines') => op' = "set_predicate"]_vars

\* a cache that grew in several steps after a set_predicate and was then
\* paged back over
C18_Witness ==
    /\ ~fresh /\ op = "prev_page" /\ height = 1
    /\ Len(buffered_lines) >= 4
    /\ start_line = 2 /\ end_line = 2

\* what a get_lines call returned and left behind, as far as its caller
\* and the source can tell
GetLinesOutcome(r) ==
    [lines          |-> r.lines,
     panicked       |-> r.panicked,
     start_line     |-> r.w.start_line,
     end_line       |-> r.w.end_line,
     buffered_lines |-> r.w.buffered_lines,
     cached_lines   |-> r.w.context_buffer.iter.cached_lines,
     source_left    |-> r.w.context_buffer.iter.lines]

\* get_lines(start, num_lines) called twice in a row on w gives the same
\* outcome both times
GetLinesTwice(w, start, num_lines) ==
    LET again(r1) ==
            GetLinesOutcome(get_lines(r1.w, start, num_lines)) = GetLinesOutcome(r1)
    IN  again(get_lines(w, start, num_lines))

\* C19: get_lines is idempotent: in every reachable state, for every start
\* from 1 to two past the cache and each length the window's operations
\* ask for (1 and height), a second get_lines(s, n) right after the first
\* returns the same lines and leaves the viewport, the cache, the memo and
\* the source as the first call left them; so does repeating the get_lines
\* call a page operation has just made.
C19_GetLinesIdempotent ==
    /\ \A s \in 1..(Len(buffered_lines) + 2), n \in {1, height} :
           GetLinesTwice(Win, s, n)
    /\ op \in {"next_page", "prev_page"} =>
           \E r \in {get_lines(Win, start_line, height)} :
               /\ r.lines = ret
               /\ GetLinesOutcome(r) = GetLinesOutcome([w |-> Win, lines |-> ret,
                                                        panicked |-> panicked])

\* prev_page returned the first page out of a longer cache, and asking
\* get_lines for that page again returns it again; a first get_lines past
\* the cache still has lines to read off the source
C19_Witness ==
    /\ op = "prev_page" /\ height = 2 /\ start_line = 1 /\ Len(ret) = 2
    /\ Len(buffered_lines) >= 3
    /\ get_lines(Win, start_line, height).lines = ret
    /\ WinLB.lines # <<>>
    /\ Len(get_lines(Win, 4, 1).w.context_buffer.iter.cached_lines)
           > Len(WinLB.cached_lines)

\* C20: in every reachable state of the line buffer, whatever get, seek
\* and next calls were made, the memo entry at position i carries line
\* number i and the text of the i-th line of the source: numbers increase
\* by one from 1, with no gap, duplicate or reordering.
C20_MemoNumbering ==
    /\ Len(line_buffer.cached_lines) <= Len(source)
    /\ \A i \in 1..Len(line_buffer.cached_lines) :
           /\ line_buffer.cached_lines[i][1] = i
           /\ line_buffer.cached_lines[i][2] = source[i]
    /\ \A i \in 1..(Len(line_buffer.cached_lines) - 1) :
           line_buffer.cached_lines[i + 1][1] = line_buffer.cached_lines[i][1] + 1

\* the memo was extended in more than one read and is walked backward
C20_Witness ==
    /\ op = "next" /\ ret # None
    /\ line_buffer.iter_direction = "BACKWARD"
    /\ Len(line_buffer.cached_lines) >= 3
    /\ line_buffer.lines # <<>>
    /\ line_buffer.last_iter_line = 1
    /\ \E i \in 1..(Len(source) - 1) : source[i] # source[i + 1]

\* C21: get(n) returns the line numbered n when 1 <= n <= source length and
\* None when n < 1 or n is past the end of the source; it pulls lines from
\* the source only when n exceeds the memo length, and then only up to
\* line n; the memo grows monotonically and no operation shrinks it.
C21_Get ==
    /\ [](\A n \in LineNums :
              \E r \in {LineBuffer_get(line_buffer, n)} :
                  /\ r.val = IF 1 <= n /\ n <= Len(source)
                             THEN Some(<<n, source[n]>>)
                             ELSE None
                  /\ n <= Len(line_buffer.cached_lines) => r.lb = line_buffer
                  /\ IsPrefix(line_buffer.cached_lines, r.lb.cached_lines)
                  /\ Len(r.lb.cached_lines) =
                         IF n > Len(line_buffer.cached_lines)
                         THEN Min(n, Len(source))
                         ELSE Len(line_buffer.cached_lines)
                  /\ r.lb.last_iter_line = line_buffer.last_iter_line
                  /\ r.lb.iter_direction = line_buffer.iter_direction)
    /\ [][IsPrefix(line_buffer.cached_lines, line_buffer.cached_lines')]_vars

\* get(3) read the source up to line 3 and no further
C21_Witness ==
    /\ op = "get" /\ Len(source) >= 4
    /\ ret = Some(<<3, source[3]>>)
    /\ Len(line_buffer.cached_lines) = 3
    /\ Len(line_buffer.lines) = Len(source) - 3

\* the line the k-th next after seek(n, .) steps to, in direction dir
SoughtLine(n, k, dir) == IF dir = "FORWARD" THEN n + k - 1 ELSE n - k + 1

\* C22: after seek(n, direction) with 1 <= n <= source length, the next
\* call to next returns line n and the calls after it n+1, n+2, ... going
\* forward, or n-1, n-2, ..., 1 going backward (None beyond either end);
\* seek itself leaves the memo and the source as they are.
C22_SeekThenNext ==
    /\ []((/\ since_seek # None /\ op = "next"
           /\ since_seek[1].line_num >= 1
           /\ since_seek[1].line_num <= Len(source)) =>
              \E target \in {SoughtLine(since_seek[1].line_num, since_seek[1].nexts,
                                        line_buffer.iter_direction)} :
                  ret = IF 1 <= target /\ target <= Len(source)
                        THEN Some(<<target, source[target]>>)
                        ELSE None)
    /\ [][op' = "seek" =>
              /\ line_buffer.cached_lines' = line_buffer.cached_lines
              /\ line_buffer.lines' = line_buffer.lines]_vars

\* seek(3, backward) on a memo of one line, then 3, 2, 1 and None
C22_Witness ==
    /\ since_seek # None /\ op = "next" /\ ret = None
    /\ since_seek[1].line_num = 3 /\ since_seek[1].nexts = 4
    /\ line_buffer.iter_direction = "BACKWARD"
    /\ Len(source) >= 4
    /\ Len(line_buffer.cached_lines) = 3

\* C23: next returns None when it would move backward from line 1 and when
\* it would move forward past the last source line; a next that returns
\* None leaves the cursor and the direction where they were, and the next
\* calls after it, in the same direction, return None as well.
C23_NextAtTheEnds ==
    /\ [][op' = "next" =>
              /\ (/\ line_buffer.iter_direction = "BACKWARD"
                  /\ line_buffer.last_iter_line <= 1) => ret' = None
              /\ (/\ line_buffer.iter_direction = "FORWARD"
                  /\ line_buffer.last_iter_line >= Len(source)) => ret' = None
              /\ ret' = None =>
                     /\ line_buffer.last_iter_line' = line_buffer.last_iter_line
                     /\ line_buffer.iter_direction' = line_buffer.iter_direction
              /\ (op = "next" /\ ret = None) => ret' = None]_vars
    /\ []((op = "next" /\ ret = None) =>
              \E r \in {LineBuffer_next(line_buffer)} :
                  /\ r.val = None
                  /\ r.lb = line_buffer)

\* a backward walk over the memo came to line 1 and the next call gave None
C23_Witness ==
    /\ op = "next" /\ ret = None
    /\ line_buffer.iter_direction = "BACKWARD"
    /\ line_buffer.last_iter_line = 1
    /\ since_seek # None /\ since_seek[1].nexts >= 3

\* a forward walk read the whole source and the next call gave None
C23_WitnessForward ==
    /\ op = "next" /\ ret = None
    /\ line_buffer.iter_direction = "FORWARD"
    /\ Len(source) >= 3
    /\ line_buffer.last_iter_line = Len(source)
    /\ line_buffer.lines = <<>>

\* C24 as stated: in every reachable state, after any seek, a next call in
\* backward direction pulls no line from the source and does not extend
\* the memo.
C24_BackwardNeverPulls ==
    [][(op' = "next" /\ line_buffer.iter_direction = "BACKWARD") =>
           /\ line_buffer.cached_lines' = line_buffer.cached_lines
           /\ line_buffer.lines' = line_buffer.lines]_vars

\* C24 as the code has it: a backward next is served from the memo alone
\* whenever the line it steps to (last_iter_line - 1) is within the memo;
\* when that line lies past the memo, as on the first next after a seek
\* past the memo, it pulls the source lines up to that line and no more.
\* Once a backward next has returned a line, the cursor is within the memo.
C24_BackwardPullsOnlyPastMemo ==
    /\ [][(op' = "next" /\ line_buffer.iter_direction = "BACKWARD") =>
              IF line_buffer.last_iter_line - 1 <= Len(line_buffer.cached_lines)
              THEN /\ line_buffer.cached_lines' = line_buffer.cached_lines
                   /\ line_buffer.lines' = line_buffer.lines
              ELSE /\ Len(line_buffer.cached_lines') =
                          Min(line_buffer.last_iter_line - 1, Len(source))
                   /\ IsPrefix(line_buffer.cached_lines, line_buffer.cached_lines')]_vars
    /\ []((/\ op = "next" /\ ret # None
           /\ line_buffer.iter_direction = "BACKWARD") =>
              line_buffer.last_iter_line <= Len(line_buffer.cached_lines))

\* the first backward next after seek(4, backward) on a memo of one line
\* returned line 4, having pulled lines 2..4
C24_Witness ==
    /\ op = "next" /\ Len(source) >= 4
    /\ ret = Some(<<4, source[4]>>)
    /\ line_buffer.iter_direction = "BACKWARD"
    /\ since_seek # None /\ since_seek[1].nexts = 1
    /\ Len(line_buffer.cached_lines) = 4


\* C25: a predicate with an empty filter string is treated as no predicate:
\* a window constructed with it, or given it through set_predicate, emits
\* every source line as UnfilteredLine and no Gap, as pass-through does.
\* (What next_line returns, call after call, since construction or
\* set_predicate is the emitted stream.)
C25_EmptyFilterIsPassThrough ==
    (op = "next_line" /\ nexts >= 1 /\ predicate # None
        /\ predicate[1].filter_string = <<>>) =>
        ret = IF nexts <= Len(source)
              THEN Some(UnfilteredLine(<<nexts, source[nexts]>>))
              ELSE None


\* C26 (as stated): while a predicate of radius r is active the deque holds
\* exactly 2r+1 slots in every state between operations, from construction
\* on and after any number of next calls.
C26_DequeAlwaysFull ==
    CbPred # None => Len(context_buffer.buffer) = 2 * CbR + 1

\* C26 (amended): the deque holds 2r+1 slots from construction up to the
\* step whose skip-ahead loop exhausts the source; that step empties the
\* deque and returns None, with the source read to its end, and the deque
\* is empty between operations from then on. Whenever a step yields an
\* entry, and as long as the classifier has not returned None, the deque
\* holds 2r+1 slots.
C26_DequeFullUntilCleared ==
    /\ [](CbPred # None =>
            /\ Len(context_buffer.buffer) \in {0, 2 * CbR + 1}
            /\ (op = "new" \/ ret # None \/ ~ended) =>
                   Len(context_buffer.buffer) = 2 * CbR + 1
            /\ context_buffer.buffer = <<>> =>
                   /\ ret = None
                   /\ context_buffer.iter.lines = <<>>)
    /\ [][(CbPred # None /\ context_buffer.buffer = <<>>) =>
              context_buffer'.buffer = <<>>]_vars

C26_Witness ==
    /\ op = "next" /\ CbPred # None /\ CbR = 1
    /\ context_buffer.buffer = <<>>
    /\ Len(out) >= 3

\* the deque is still full after the classifier returned None for the first
\* time: the last match sat within r lines of the end of the source
C26_WitnessFullAtTheEnd ==
    /\ op = "next" /\ CbPred # None /\ CbR = 1
    /\ ended /\ Len(context_buffer.buffer) = 3
    /\ Len(out) >= 2

\* C27: gap step protocol. A step taken in gap state None advances the
\* deque and yields Gap, moving to state Previous, exactly when the advance
\* skipped ahead to a Match (the loop pulled beyond the first line, and the
\* Match is the deque's last slot). The step taken in state Previous
\* resets the state to None, leaves the deque and the line buffer as they
\* are and yields the classification of the current slot, which is line
\* m - r for the Match m the skip stopped at: no line of the new group is
\* lost to the Gap. The state is never Current between steps.
C27_GapProtocol ==
    /\ [](context_buffer.gap \in {"None", "Previous"})
    /\ [][(CbPred # None /\ context_buffer.gap = "None") =>
              /\ (ret' = Some(Gap)) <=> (context_buffer'.gap = "Previous")
              /\ (ret' = Some(Gap)) <=>
                     /\ context_buffer'.buffer # <<>>
                     /\ context_buffer'.iter.last_iter_line
                            >= context_buffer.iter.last_iter_line + 2
              /\ (ret' = Some(Gap)) =>
                     LET m == context_buffer'.iter.last_iter_line
                     IN  /\ Last(context_buffer'.buffer) = Some(Match(<<m, source[m]>>))
                         /\ \A i \in 1..(Len(context_buffer'.buffer) - 1) :
                                context_buffer'.buffer[i] # None =>
                                    context_buffer'.buffer[i][1].tag = "NoMatch"]_vars
    /\ [][context_buffer.gap = "Previous" =>
              LET m == context_buffer.iter.last_iter_line
              IN  /\ context_buffer'.gap = "None"
                  /\ context_buffer'.buffer = context_buffer.buffer
                  /\ context_buffer'.iter = context_buffer.iter
                  /\ m - CbR >= 1
                  /\ ret' = Some(EntryOf(source, CbF, m - CbR))
                  /\ ret' = classify_cur_line(context_buffer)]_vars

C27_Witness ==
    /\ op = "next" /\ CbPred # None /\ CbR = 2
    /\ context_buffer.gap = "None"
    /\ Len(out) >= 5
    /\ out[Len(out) - 1] = Gap
    /\ Last(out).tag = "ContextLine"
    /\ Last(out).line[1] = context_buffer.iter.last_iter_line - 2


\* C28: constructing the classifier with a predicate of radius r over a
\* source of N lines pulls exactly min(r, N) lines from the line buffer and
\* gives a deque of 2r+1 slots: r+1 empty slots, the first min(r, N) lines
\* classified, and empty slots for the rest; constructing it with no
\* predicate pulls nothing from the source.
C28_Construction ==
    op = "new" =>
        IF CbPred # None
        THEN LET k == Min(CbR, Len(source))
                 classified(i) ==
                     IF Contains(source[i], CbF)
                     THEN Match(<<i, source[i]>>)
                     ELSE NoMatch(<<i, source[i]>>)
             IN  /\ Len(context_buffer.buffer) = 2 * CbR + 1
                 /\ context_buffer.buffer =
                        Nones(CbR + 1) \o [i \in 1..k |-> Some(classified(i))]
                                       \o Nones(CbR - k)
                 /\ context_buffer.iter.cached_lines =
                        [i \in 1..k |-> <<i, source[i]>>]
                 /\ context_buffer.iter.lines = SubSeq(source, k + 1, Len(source))
                 /\ context_buffer.iter.last_iter_line = k
        ELSE /\ context_buffer.buffer = <<>>
             /\ context_buffer.iter = LineBuffer_new(source)

C28_Witness ==
    /\ op = "new" /\ CbPred # None /\ CbR = 2 /\ Len(source) >= 4
    /\ Len(context_buffer.iter.cached_lines) = 2
    /\ context_buffer.buffer[5] # None
    /\ context_buffer.buffer[5][1].tag = "Match"

\* a source shorter than the radius leaves trailing slots empty
C28_WitnessShortSource ==
    /\ op = "new" /\ CbPred # None /\ CbR = 2 /\ Len(source) = 1
    /\ context_buffer.buffer[4] # None
    /\ context_buffer.buffer[5] = None
    /\ context_buffer.iter.lines = <<>>


\* the slot from_numbered_line makes of line i of src
SlotOf(src, f, i) ==
    IF Contains(src[i], f) THEN Some(Match(<<i, src[i]>>))
                           ELSE Some(NoMatch(<<i, src[i]>>))
HoldsMatch(buffer) ==
    \E i \in 1..Len(buffer) : buffer[i] # None /\ buffer[i][1].tag = "Match"
LastN(s, n) == SubSeq(s, Len(s) - n + 1, Len(s))

\* C29: every advance of the classifier (fill_buffer, run by each step
\* taken in gap state None) ends, having pulled lines a+1..b of the source
\* one at a time, each pushed on the deque as the front slot is popped. The
\* skip-ahead loop pulls (b >= a+2) only while the deque holds no Match and
\* stops as soon as one enters: line b is then a Match, no line before it
\* that the loop pulled is, and no line beyond b is pulled; otherwise it
\* stops when the source is exhausted, and the deque is then cleared.
C29_FillBuffer ==
    [][(CbPred # None /\ context_buffer.gap = "None") =>
          LET a == context_buffer.iter.last_iter_line
              b == context_buffer'.iter.last_iter_line
              N == Len(source)
              pushed == IF a < N THEN [i \in 1..(b - a) |-> SlotOf(source, CbF, a + i)]
                                 ELSE <<None>>
          IN  /\ a <= b /\ b <= N
              /\ context_buffer'.iter.cached_lines = [i \in 1..b |-> <<i, source[i]>>]
              /\ context_buffer'.iter.lines = SubSeq(source, b + 1, N)
              /\ a < N => b >= a + 1
              /\ b >= a + 2 =>
                     /\ ~HoldsMatch(Tail(context_buffer.buffer))
                     /\ \A i \in (a + 1)..(b - 1) : ~Contains(source[i], CbF)
              /\ IF context_buffer'.buffer # <<>>
                 THEN /\ HoldsMatch(context_buffer'.buffer)
                      /\ b >= a + 2 => Contains(source[b], CbF)
                      /\ context_buffer'.buffer =
                             LastN(context_buffer.buffer \o pushed,
                                   Len(context_buffer.buffer))
                 ELSE /\ b = N
                      /\ context_buffer.buffer # <<>> =>
                             ~HoldsMatch(Tail(context_buffer.buffer) \o pushed)]_vars

\* the loop skipped lines 3 and 4 and stopped on the Match of line 5, with
\* lines 6 and 7 left in the source
C29_Witness ==
    /\ op = "next" /\ CbPred # None /\ CbR = 1
    /\ Len(source) = 7
    /\ out = <<Gap>>
    /\ context_buffer.iter.last_iter_line = 5
    /\ Len(context_buffer.iter.lines) = 2
    /\ context_buffer.buffer[3] = Some(Match(<<5, source[5]>>))

\* the loop ran to the end of a source without a Match and cleared the deque
C29_WitnessExhausted ==
    /\ op = "next" /\ CbPred # None /\ CbR = 1
    /\ Len(source) = 7
    /\ out = <<>>
    /\ context_buffer.buffer = <<>>
    /\ context_buffer.iter.last_iter_line = 7


\* C30: no sequence of window operations, for any height >= 0, calls
\* get_lines with start < 1: the assertion of get_lines never fails. Every
\* operation that went through get_lines leaves the start it passed in
\* start_line, which is then at least 1.
C30_GetLinesStartsAtOne ==
    /\ panicked = FALSE
    /\ start_line >= 0 /\ end_line >= 0
    /\ (op \in {"next_line", "next_page", "prev_page"}
            \/ (op = "prev_line" /\ ret # None)) => start_line >= 1

\* prev_line went back to line 1, the lowest start, on a window of height 0
C30_Witness ==
    /\ op = "prev_line" /\ ret # None
    /\ height = 0
    /\ start_line = 1 /\ end_line = 0

\* prev_page from the first page: the start is clamped to 1
C30_WitnessPrevPage ==
    /\ op = "prev_page" /\ height = 2
    /\ start_line = 1 /\ end_line = 2
    /\ prevs = -1 /\ fresh = FALSE


\* the get_lines call operation o makes in the current state, if it makes one
CallOf(o) ==
    CASE o = "next_line" -> [called |-> TRUE, start |-> end_line + 1, count |-> 1]
      [] o = "next_page" -> [called |-> TRUE, start |-> end_line + 1, count |-> height]
      [] o = "prev_page" -> [called |-> TRUE, start |-> PrevPageStart, count |-> height]
      [] o = "prev_line" -> [called |-> end_line - height > 0,
                             start |-> end_line - height, count |-> 1]

\* the classifier after k more next calls
RECURSIVE Advance(_, _)
Advance(cb, k) ==
    IF k <= 0 THEN cb ELSE Advance(ContextBuffer_next(cb).cb, k - 1)

\* C31: every get_lines(start, count) call the window's operations make
\* has start >= 1, leaves the cache as the first min(total stream length,
\* max(previous cache length, start+count-1)) entries of the classified
\* stream, and returns the cache entries start .. min(start+count-1, cache
\* length) (none when start is past the cache). The classifier is advanced
\* by the entries the cache gained and no further, one more next call
\* telling it the stream has ended when entries wanted were not there.
C31_GetLines ==
    [][op' \in NavOps =>
          \E c \in {CallOf(op')} : c.called =>
              \E stream \in {ClassifiedStream(source, predicate)} :
                  LET want   == c.start + c.count - 1
                      had    == Len(buffered_lines)
                      newLen == Min(Len(stream), Max(had, want))
                      slice  == SubSeq(stream, c.start, Min(want, newLen))
                      calls  == (newLen - had)
                                    + (IF want > had /\ want > newLen THEN 1 ELSE 0)
                  IN  /\ c.start >= 1
                      /\ buffered_lines' = SubSeq(stream, 1, newLen)
                      /\ ret' = IF op' \in {"next_page", "prev_page"}
                                THEN slice
                                ELSE IF slice = <<>> THEN None ELSE Some(slice[1])
                      /\ start_line' = c.start
                      /\ context_buffer' = Advance(context_buffer, calls)]_vars

\* a page asked for past the end of the stream: the cache stops at the end
\* of the stream and the slice is cut to what the cache holds
C31_Witness ==
    /\ op = "next_page" /\ height = 2 /\ ~fresh
    /\ predicate # None
    /\ Len(buffered_lines) = 3
    /\ start_line = 3 /\ end_line = 3
    /\ Len(ret) = 1

\* prev_page asked for a page wholly past the end of the cache (start_line
\* was left over from before set_predicate): nothing is returned
C31_WitnessPastCache ==
    /\ op = "prev_page" /\ ~fresh
    /\ start_line > Len(buffered_lines) + 1
    /\ ret = <<>>
    /\ Len(buffered_lines) >= 1


\* C32: a navigation operation whose requested range ends at or before the
\* current cache length is served from the cache alone: the cache, the
\* classifier (deque, gap state, predicate) and the line buffer (memo,
\* cursor, source) are left as they were. prev_line is always such an
\* operation: it never pulls from the classifier or the source.
C32_ServedFromCache ==
    [][/\ op' \in NavOps =>
              \E c \in {CallOf(op')} :
                  (~c.called \/ c.start + c.count - 1 <= Len(buffered_lines)) =>
                      /\ buffered_lines' = buffered_lines
                      /\ context_buffer' = context_buffer
       /\ op' = "prev_line" =>
              /\ buffered_lines' = buffered_lines
              /\ context_buffer' = context_buffer
              /\ end_line - height <= Len(buffered_lines)]_vars

\* prev_line returned a cached entry while the source still had lines left
C32_Witness ==
    /\ op = "prev_line" /\ ret # None
    /\ predicate # None
    /\ Len(buffered_lines) >= 3
    /\ WinLB.lines # <<>>
    /\ ret = Some(buffered_lines[start_line])

\* prev_page returned a full page out of the cache, the source not read out
C32_WitnessPage ==
    /\ op = "prev_page" /\ height = 2 /\ Len(ret) = 2
    /\ Len(buffered_lines) >= 3
    /\ WinLB.lines # <<>>


\* C33: in every reachable window state, whatever mix of line and page
\* operations and set_predicate calls led to it, the cache is a prefix of
\* the classified stream of the whole source under the current predicate,
\* which is the predicate the classifier holds.
C33_CacheIsStreamPrefix ==
    /\ context_buffer.filter_predicate = predicate
    /\ \E stream \in {ClassifiedStream(source, predicate)} :
           IsPrefix(buffered_lines, stream)

\* a cache fetched by line and by page operations after a change of
\* predicate, holding a Gap
C33_Witness ==
    /\ ~fresh /\ predicate # None
    /\ op = "next_page" /\ height = 2 /\ pages = -1
    /\ Len(buffered_lines) >= 3
    /\ start_line = 2
    /\ \E i \in 1..Len(buffered_lines) : IsGap(buffered_lines[i])


\* C34: with an active predicate of radius r no Gap is yielded between two
\* lines whose source numbers are adjacent: the line after a Gap lies more
\* than one line past the line before it. Two consecutive matching lines at
\* most 2r+1 apart are yielded as one contiguous run, every line from the
\* first to the second and no Gap among them.
C34_NoGapInsideRun ==
    CbPred # None =>
        /\ \A i \in 2..(Len(out) - 1) :
               IsGap(out[i]) =>
                   /\ IsLine(out[i - 1]) /\ IsLine(out[i + 1])
                   /\ out[i + 1].line[1] > out[i - 1].line[1] + 1
        /\ \A p \in ConsecutiveMatches(source, CbF) :
               (p[2] - p[1] <= 2 * CbR + 1 /\ (HasMatch(p[2]) \/ ended)) =>
                   /\ HasMatch(p[1])
                   /\ HasMatch(p[2])
                   /\ GapsBetween(IdxOfMatch(p[1]), IdxOfMatch(p[2])) = 0
                   /\ IdxOfMatch(p[2]) - IdxOfMatch(p[1]) = p[2] - p[1]

\* two matches exactly 2r+1 apart, their groups touching, in a stream that
\* also has a Gap elsewhere
C34_Witness ==
    /\ CbPred # None /\ CbR = 1 /\ ended
    /\ \E p \in ConsecutiveMatches(source, CbF) :
           /\ p[2] - p[1] = 3
           /\ HasMatch(p[1]) /\ HasMatch(p[2])
    /\ \E i \in 1..Len(out) : IsGap(out[i])


\* C35 (as stated): in every reachable window state end_line <= cache
\* length, and after any navigation operation that returned at least one
\* entry 1 <= start_line <= end_line and the viewport [start_line, end_line]
\* spans at most height entries.
C35_ViewportWithinHeight ==
    /\ end_line <= Len(buffered_lines)
    /\ (op \in NavOps /\ ret # <<>>) =>
           /\ 1 <= start_line
           /\ start_line <= end_line
           /\ end_line - start_line + 1 <= height


\* C35 (amended): in every reachable window state 0 <= end_line <= cache
\* length; on a window of height >= 1, after any navigation operation that
\* returned at least one entry, 1 <= start_line <= end_line and the viewport
\* spans at most height entries. On a window of height 0 the line
\* operations still return entries: next_line leaves a viewport of one
\* entry (start_line = end_line) and prev_line leaves start_line one past
\* end_line; the page operations of such a window return nothing.
C35_ViewportWithinPositiveHeight ==
    /\ 0 <= end_line /\ end_line <= Len(buffered_lines)
    /\ (op \in NavOps /\ ret # <<>> /\ height >= 1) =>
           /\ 1 <= start_line
           /\ start_line <= end_line
           /\ end_line - start_line + 1 <= height
    /\ (op \in NavOps /\ ret # <<>> /\ height = 0) =>
           /\ op \in {"next_line", "prev_line"}
           /\ 1 <= start_line
           /\ op = "next_line" => start_line = end_line
           /\ op = "prev_line" => start_line = end_line + 1

\* prev_line left a viewport of exactly height entries above the old bottom
C35_Witness ==
    /\ op = "prev_line" /\ ret # None /\ height = 2
    /\ start_line = 2 /\ end_line = 3
    /\ Len(buffered_lines) >= 4

\* on a window of height 0 prev_line returned an entry and left start_line
\* past end_line
C35_WitnessHeightZero ==
    /\ op = "prev_line" /\ ret # None /\ height = 0
    /\ start_line = 2 /\ end_line = 1


\* the window the step leaves behind
WinAfter ==
    [context_buffer |-> context_buffer',
     buffered_lines |-> buffered_lines',
     predicate      |-> predicate',
     height         |-> height',
     start_line     |-> start_line',
     end_line       |-> end_line']

\* C36: a next_line call that returns None at the end of the stream leaves
\* the viewport unchanged: start_line and end_line keep the values they had
\* before the call, and a prev_page or prev_line made next returns what it
\* would have returned had the failed next_line not been made.
C36_FailedNextLineKeepsViewport ==
    [][(op' = "next_line" /\ ret' = None) =>
           /\ start_line' = start_line
           /\ end_line' = end_line
           /\ WindowBuffer_prev_page(WinAfter).ret = WindowBuffer_prev_page(Win).ret
           /\ WindowBuffer_prev_line(WinAfter).ret = WindowBuffer_prev_line(Win).ret]_vars


\* next_page and then prev_page on window w: what prev_page returns and
\* the end_line it leaves
PageRoundTrip(w) ==
    LET back(r2) == [ret |-> r2.ret, end_line |-> r2.w.end_line,
                     panicked |-> r2.panicked]
        forth(r1) == back(WindowBuffer_prev_page(r1.w))
    IN  forth(WindowBuffer_next_page(w))

\* C37: page round trip. In every reachable state with end_line = e >=
\* height, next_page followed at once by prev_page returns the cache
\* entries e-height+1 .. e and leaves end_line = e; and whenever prev_page
\* is called right after a next_page that was called with end_line = e >=
\* height (which left start_line = e + 1), that is what it does.
C37_PageRoundTrip ==
    /\ [](end_line >= height =>
            \E t \in {PageRoundTrip(Win)} :
                /\ t.ret = SubSeq(buffered_lines, end_line - height + 1, end_line)
                /\ t.end_line = end_line
                /\ ~t.panicked)
    /\ [][(op = "next_page" /\ op' = "prev_page" /\ start_line - 1 >= height) =>
              /\ ret' = SubSeq(buffered_lines, start_line - height, start_line - 1)
              /\ end_line' = start_line - 1]_vars

\* a full page is on screen, the next page exists, and going to it and
\* back returns the page on screen
C37_Witness ==
    /\ op = "next_page" /\ height = 2 /\ Len(ret) = 2
    /\ end_line = 2 /\ start_line = 1
    /\ predicate # None
    /\ Len(WindowBuffer_next_page(Win).ret) = 2
    /\ PageRoundTrip(Win).ret = ret


\* next_line and then prev_line on window w: what each returns and the
\* end_line prev_line leaves
LineRoundTrip(w) ==
    LET back(r1, r2) == [next |-> r1.ret, prev |-> r2.ret,
                         end_line |-> r2.w.end_line,
                         panicked |-> r1.panicked \/ r2.panicked]
        forth(r1) == back(r1, WindowBuffer_prev_line(r1.w))
    IN  forth(WindowBuffer_next_line(w))

\* C38: line round trip. In every reachable state with end_line = e >=
\* height in which next_line returns an entry, a prev_line made right after
\* it returns the cache entry at index e+1-height and leaves end_line = e;
\* and whenever prev_line is called right after a next_line that returned
\* an entry and was called with end_line = e >= height (which left end_line
\* = e + 1), that is what it does.
C38_LineRoundTrip ==
    /\ [](end_line >= height =>
            \E t \in {LineRoundTrip(Win)} :
                t.next # None =>
                    /\ t.prev # None
                    /\ (end_line + 1 - height <= Len(buffered_lines) =>
                            t.prev = Some(buffered_lines[end_line + 1 - height]))
                    /\ (end_line + 1 - height > Len(buffered_lines) =>
                            t.prev = t.next)
                    /\ t.end_line = end_line
                    /\ ~t.panicked)
    /\ [][(op = "next_line" /\ ret # None /\ op' = "prev_line"
               /\ end_line - 1 >= height) =>
              /\ ret' = Some(buffered_lines[end_line - height])
              /\ end_line' = end_line - 1]_vars

\* two lines are on a screen of height 2, a third can be fetched, and
\* fetching it and stepping back returns the line on top of the screen
C38_Witness ==
    /\ op = "next_line" /\ ret # None /\ height = 2
    /\ end_line = 2
    /\ predicate # None
    /\ Len(buffered_lines) = 2
    /\ LineRoundTrip(Win).next # None
    /\ LineRoundTrip(Win).prev = Some(buffered_lines[1])
    /\ LineRoundTrip(Win).end_line = 2


\* source lines a step pulled: what the memo gained
Pulled == Len(WinLB.cached_lines') - Len(WinLB.cached_lines)

\* C39 (as stated): on a window that has only ever had no predicate the
\* number of lines pulled from the source (the memo length) always equals
\* the cache length, next_line pulls at most one source line, next_page at
\* most height, and construction pulls none. (A window constructed without
\* a predicate that is given no predicate again by its first set_predicate
\* call has only ever had no predicate.)
C39_MemoEqualsCache ==
    /\ []((fresh /\ predicate = None) =>
              Len(WinLB.cached_lines) = Len(buffered_lines))
    /\ []((op = "new" /\ predicate = None) => WinLB.cached_lines = <<>>)
    /\ [][(fresh /\ predicate = None /\ predicate' = None) =>
              /\ Len(WinLB.cached_lines') = Len(buffered_lines')
              /\ op' = "next_line" => Pulled <= 1
              /\ op' = "next_page" => Pulled <= height]_vars

\* C39 (amended): a window without predicate pulls strictly on demand.
\* Construction pulls nothing. While the predicate is None the line
\* buffer's cursor equals the cache length and the memo is at least as long
\* as the cache; the two are equal on a window constructed without
\* predicate as long as set_predicate has not been called. set_predicate
\* empties the cache and keeps the memo, so after it the memo is the longer
\* one until the cache has caught up. A next_line call pulls at most one
\* source line, a next_page call at most height, prev_line and
\* set_predicate(None) none; every call pulls exactly the lines the memo
\* lacks to reach the last cache index it asks for (as far as the source
\* has them), prev_page included, which fetches the first page of a window
\* nothing was fetched on.
C39_PulledOnDemand ==
    /\ []((op = "new" /\ predicate = None) =>
              /\ WinLB.cached_lines = <<>>
              /\ WinLB.lines = source)
    /\ [](predicate = None =>
              /\ WinLB.last_iter_line = Len(buffered_lines)
              /\ Len(buffered_lines) <= Len(WinLB.cached_lines))
    /\ []((fresh /\ predicate = None) =>
              Len(WinLB.cached_lines) = Len(buffered_lines))
    /\ [][(predicate = None /\ predicate' = None) =>
              /\ Pulled >= 0
              /\ op' = "next_line" => Pulled <= 1
              /\ op' = "next_page" => Pulled <= height
              /\ op' \in {"prev_line", "set_predicate"} => Pulled = 0
              /\ op' = "set_predicate" => buffered_lines' = <<>>
              /\ op' \in NavOps =>
                     \E c \in {CallOf(op')} :
                         Pulled = IF c.called
                                  THEN Min(Len(WinLB.lines),
                                           Max(0, c.start + c.count - 1
                                                      - Len(WinLB.cached_lines)))
                                  ELSE 0
              /\ Pulled > 0 =>
                     Len(WinLB.cached_lines') = Len(buffered_lines')]_vars

\* a page of two lines was pulled off the source on demand, lines left
C39_Witness ==
    /\ fresh /\ predicate = None
    /\ op = "next_page" /\ height = 2 /\ Len(ret) = 2
    /\ Len(buffered_lines) = 3
    /\ Len(WinLB.cached_lines) = 3
    /\ WinLB.lines # <<>>

\* after set_predicate(None) the memo is longer than the cache
C39_WitnessAfterSetPredicate ==
    /\ ~fresh /\ predicate = None
    /\ op = "next_line" /\ ret # None
    /\ Len(buffered_lines) = 1
    /\ Len(WinLB.cached_lines) = 3
    /\ nexts = 1

=============================================================================
